---- MODULE Spec2Model ----
(***************************************************************************)
(* Keychain contract (contract/src/lib.rs): a two-level store              *)
(*   account -> (resource -> Key {identifier, enc_password})               *)
(* with generate_new_password (generate once per (signer, resource)) and   *)
(* get_password (lookup, "" on a miss).                                    *)
(*                                                                         *)
(* Strings that the code indexes (the character sets, the passwords) are   *)
(* sequences of one-character strings; "" is the empty sequence.  Account, *)
(* resource and identifier strings are only compared and used as keys and  *)
(* stay TLA+ strings.                                                      *)
(***************************************************************************)
EXTENDS Integers, Sequences, FiniteSets, TLC

\* ------------------------------------------------------------------------
\* Bounds of the model
\* ------------------------------------------------------------------------

\* how many microseconds the host clock may advance during a behaviour
MaxTicks == 1

\* caller identities the host supplies as signer_account_id (the code
\* takes whatever string it is given, the empty one included)
Signers == {"bob_near", ""}

\* account strings that get_password is queried with
Accounts == Signers \cup {"francis.near"}

\* invocations in flight in a host that does not serialise them
Procs == {"p1", "p2"}

\* resource names (the empty string is a name like any other)
Resources == {"email", ""}

\* owner labels
Identifiers == {"bob@email.com", ""}

\* ------------------------------------------------------------------------
\* Program constants
\* ------------------------------------------------------------------------

LOWER_CASE_LETTERS ==
    << "a","b","c","d","e","f","g","h","i","j","k","l","m",
       "n","o","p","q","r","s","t","u","v","w","x","y","z" >>

UPPER_CASE_LETTERS ==
    << "A","B","C","D","E","F","G","H","I","J","K","L","M",
       "N","O","P","Q","R","S","T","U","V","W","X","Y","Z" >>

NUMBERS == << "0","1","2","3","4","5","6","7","8","9" >>

SPECIAL_CHARS ==
    << "~","!","@","#","$","%","^","&","*","(",")","_","-","+","=",
       "[","]","{","}","/","\\","|","?",",",".","<",">","'","\"" >>

\* variant: a loop bound one short (1..password_len)
password_len_short == 12 - 1

\* let password_len = 12;
password_len == 12

\* variant: the classes pushed in another order (uppercase first)
selected_set_upper_first ==
    UPPER_CASE_LETTERS \o LOWER_CASE_LETTERS \o NUMBERS \o SPECIAL_CHARS

\* selected_set after the four push_str calls
selected_set ==
    LOWER_CASE_LETTERS \o UPPER_CASE_LETTERS \o NUMBERS \o SPECIAL_CHARS

\* selected_set.len()
selected_set_len == Len(selected_set)

\* "".to_string()
EmptyString == << >>

\* ------------------------------------------------------------------------
\* State
\* ------------------------------------------------------------------------

VARIABLES
    keys,       \* Keychain.keys : HashMap<String, HashMap<String, Key>>
    pc,         \* "ready" | "loop" | "returned" | "panicked"
    cur,        \* the invocation in progress, or the last one that ended
    password,   \* local `password` of generate_new_password
    draws,      \* indices returned by generate_random_number in this call
    clock,      \* host clock: microseconds since UNIX_EPOCH, as usize
    logs,       \* env::log lines of the current invocation
    keys0,      \* history: keys when the current invocation started
    generated_by, \* history: the signers whose call stored a generation
    procs,      \* concurrent host only: the frame of each invocation
    mutex       \* concurrent host only: a lock is held around generate

\* what the sequential host's invocation owns besides the store and clock
seqvars == << pc, cur, password, draws, logs, keys0, generated_by >>

\* what only the concurrent host uses
concvars == << procs, mutex >>

vars == << keys, pc, cur, password, draws, clock, logs, keys0,
           generated_by, procs, mutex >>

\* ------------------------------------------------------------------------
\* Pure helpers
\* ------------------------------------------------------------------------

\* HashMap::new()
HashMapNew == << >>

\* variant: entry(k).or_insert(v), an existing value is kept
HashMapInsert_keep(m, k, v) == m @@ (k :> v)

\* HashMap::insert: the value under k is replaced, other entries are kept
HashMapInsert(m, k, v) == (k :> v) @@ m

\* variant: the test of line 51 dropped, every call generates
is_empty_always(s) == TRUE

\* str::is_empty
is_empty(s) == Len(s) = 0

\* selected_set.chars().nth(i): None past the end; the code unwraps it
nth_is_some(s, i) == i >= 0 /\ i < Len(s)
nth(s, i) == s[i + 1]

\* variant: indices drawn from [1, bound), the first character never chosen
generate_random_number_from_one(microseconds, less_than_or_equal_to) ==
    1 + (microseconds % (less_than_or_equal_to - 1))

\* generate_random_number(less_than_or_equal_to), given the clock reading
\* (as_micros() already cast to usize; unwrap_or_default gives 0 for a
\* clock before the epoch)
generate_random_number(microseconds, less_than_or_equal_to) ==
    microseconds % less_than_or_equal_to

\* variant: the template's default greeting returned on a miss
get_password_hello(k, account_id, resource) ==
    IF account_id \in DOMAIN k /\ resource \in DOMAIN k[account_id]
    THEN k[account_id][resource].enc_password
    ELSE << "H", "e", "l", "l", "o" >>

\* get_password's result (the match on keys.get / record.get)
get_password(k, account_id, resource) ==
    IF account_id \in DOMAIN k
    THEN IF resource \in DOMAIN k[account_id]
         THEN k[account_id][resource].enc_password
         ELSE EmptyString
    ELSE EmptyString

\* the log line get_password emits
SavingResult(result, account_id) == << "Saving result", result, account_id >>

\* ------------------------------------------------------------------------
\* Initial state: Keychain::default(), no invocation yet
\* ------------------------------------------------------------------------

\* the first clock reading: the first draw gives the last index of the
\* universe and the next microsecond wraps to index 0
ClockStart == selected_set_len - 1

\* no invocation in flight
ProcsReady == [p \in Procs |-> [pc |-> "ready", password |-> EmptyString]]

Init ==
    /\ keys = HashMapNew
    /\ pc = "ready"
    /\ cur = [op |-> "none"]
    /\ password = EmptyString
    /\ draws = << >>
    /\ clock = ClockStart
    /\ logs = << >>
    /\ keys0 = HashMapNew
    /\ generated_by = {}
    /\ procs = ProcsReady
    /\ mutex = TRUE

\* ------------------------------------------------------------------------
\* Actions
\* ------------------------------------------------------------------------

\* the host runs one invocation at a time
HostIdle == pc # "loop"

\* history: the invocation that just ended was a generate_new_password by
\* the same signer for the same resource, and it returned
RepeatsLastCall(account_id, resource) ==
    /\ pc = "returned"
    /\ cur.op = "generate"
    /\ cur.account = account_id
    /\ cur.resource = resource

\* variant: an internal fast path, the test of line 51 asks only whether
\* the signer has a sub-map
generate_new_password_fastpath(account_id, resource, identifier) ==
    /\ HostIdle
    /\ cur' = [op |-> "generate", account |-> account_id,
               resource |-> resource, identifier |-> identifier,
               repeat |-> RepeatsLastCall(account_id, resource)]
    /\ keys0' = keys
    /\ password' = EmptyString
    /\ draws' = << >>
    /\ LET result == get_password(keys, account_id, resource)
           entry  == << <<"started executing">>,
                        SavingResult(result, account_id) >>
       IN  IF account_id \notin DOMAIN keys
           THEN /\ pc' = "loop"
                /\ logs' = entry
           ELSE /\ pc' = "returned"
                /\ logs' = Append(entry, <<"finished executing">>)
    /\ UNCHANGED << keys, clock, generated_by, concvars >>

\* variant: an empty resource name is rejected on entry
generate_new_password_validating(account_id, resource, identifier) ==
    /\ HostIdle
    /\ cur' = [op |-> "generate", account |-> account_id,
               resource |-> resource, identifier |-> identifier,
               repeat |-> RepeatsLastCall(account_id, resource)]
    /\ keys0' = keys
    /\ password' = EmptyString
    /\ draws' = << >>
    /\ LET result == get_password(keys, account_id, resource)
           entry  == << <<"started executing">>,
                        SavingResult(result, account_id) >>
       IN  IF resource = ""
           THEN /\ pc' = "panicked"
                /\ logs' = << <<"started executing">> >>
           ELSE IF is_empty(result)
           THEN /\ pc' = "loop"
                /\ logs' = entry
           ELSE /\ pc' = "returned"
                /\ logs' = Append(entry, <<"finished executing">>)
    /\ UNCHANGED << keys, clock, generated_by, concvars >>

\* variant: an early return on an existing secret, before the log of line 73
generate_new_password_early_return(account_id, resource, identifier) ==
    /\ HostIdle
    /\ cur' = [op |-> "generate", account |-> account_id,
               resource |-> resource, identifier |-> identifier,
               repeat |-> RepeatsLastCall(account_id, resource)]
    /\ keys0' = keys
    /\ password' = EmptyString
    /\ draws' = << >>
    /\ LET result == get_password(keys, account_id, resource)
           entry  == << <<"started executing">>,
                        SavingResult(result, account_id) >>
       IN  IF is_empty(result)
           THEN /\ pc' = "loop"
                /\ logs' = entry
           ELSE /\ pc' = "returned"
                /\ logs' = entry
    /\ UNCHANGED << keys, clock, generated_by, concvars >>

\* variant: a call on an existing secret rewrites its owner label
generate_new_password_relabel(account_id, resource, identifier) ==
    /\ HostIdle
    /\ cur' = [op |-> "generate", account |-> account_id,
               resource |-> resource, identifier |-> identifier,
               repeat |-> RepeatsLastCall(account_id, resource)]
    /\ keys0' = keys
    /\ password' = EmptyString
    /\ draws' = << >>
    /\ LET result == get_password(keys, account_id, resource)
           entry  == << <<"started executing">>,
                        SavingResult(result, account_id) >>
       IN  IF is_empty(result)
           THEN /\ pc' = "loop"
                /\ logs' = entry
                /\ keys' = keys
           ELSE /\ pc' = "returned"
                /\ logs' = Append(entry, <<"finished executing">>)
                /\ keys' = [keys EXCEPT
                              ![account_id][resource].identifier = identifier]
    /\ UNCHANGED << clock, generated_by, concvars >>

\* generate_new_password, from entry to the test of line 51; when the
\* lookup is not empty the call falls through to line 73 and returns
generate_new_password(account_id, resource, identifier) ==
    /\ HostIdle
    /\ cur' = [op |-> "generate", account |-> account_id,
               resource |-> resource, identifier |-> identifier,
               repeat |-> RepeatsLastCall(account_id, resource)]
    /\ keys0' = keys
    /\ password' = EmptyString
    /\ draws' = << >>
    /\ LET result == get_password(keys, account_id, resource)
           entry  == << <<"started executing">>,
                        SavingResult(result, account_id) >>
       IN  IF is_empty(result)
           THEN /\ pc' = "loop"
                /\ logs' = entry
           ELSE /\ pc' = "returned"
                /\ logs' = Append(entry, <<"finished executing">>)
    /\ UNCHANGED << keys, clock, generated_by, concvars >>

\* one iteration of the for loop: a draw and a push
loop_iteration ==
    /\ pc = "loop"
    /\ Len(password) < password_len
    /\ LET i == generate_random_number(clock, selected_set_len)
       IN  /\ nth_is_some(selected_set, i)
           /\ password' = Append(password, nth(selected_set, i))
           /\ draws' = Append(draws, i)
    /\ UNCHANGED << keys, pc, cur, clock, logs, keys0, generated_by,
                    concvars >>

\* variant: the record is written on every iteration, so a failing draw
\* leaves the characters drawn so far in the store
loop_panic_partial ==
    /\ pc = "loop"
    /\ Len(password) < password_len
    /\ pc' = "panicked"
    /\ keys' = HashMapInsert(keys, cur.account,
                 HashMapInsert(HashMapNew, cur.resource,
                    [identifier |-> cur.identifier,
                     enc_password |-> password]))
    /\ password' = EmptyString
    /\ draws' = << >>
    /\ UNCHANGED << cur, clock, logs, keys0, generated_by, concvars >>

\* a draw that panics (SystemTime::now() on a target without a clock, or
\* the unwrap of nth): the invocation ends there
loop_panic ==
    /\ pc = "loop"
    /\ Len(password) < password_len
    /\ pc' = "panicked"
    /\ password' = EmptyString
    /\ draws' = << >>
    /\ UNCHANGED << keys, cur, clock, logs, keys0, generated_by, concvars >>

\* variant: the whole store is rebuilt around the new record
store_record_reset ==
    /\ pc = "loop"
    /\ Len(password) = password_len
    /\ LET record == HashMapInsert(HashMapNew, cur.resource,
                        [identifier |-> cur.identifier,
                         enc_password |-> password])
       IN  keys' = HashMapInsert(HashMapNew, cur.account, record)
    /\ logs' = Append(logs, <<"finished executing">>)
    /\ pc' = "returned"
    /\ generated_by' = generated_by \cup { cur.account }
    /\ UNCHANGED << cur, password, draws, clock, keys0, concvars >>

\* variant: the new resource is merged into the signer's sub-map
store_record_merge ==
    /\ pc = "loop"
    /\ Len(password) = password_len
    /\ LET old    == IF cur.account \in DOMAIN keys
                     THEN keys[cur.account] ELSE HashMapNew
           record == HashMapInsert(old, cur.resource,
                        [identifier |-> cur.identifier,
                         enc_password |-> password])
       IN  keys' = HashMapInsert(keys, cur.account, record)
    /\ logs' = Append(logs, <<"finished executing">>)
    /\ pc' = "returned"
    /\ generated_by' = generated_by \cup { cur.account }
    /\ UNCHANGED << cur, password, draws, clock, keys0, concvars >>

\* lines 68-73: build the record, insert it, log, return
store_record ==
    /\ pc = "loop"
    /\ Len(password) = password_len
    /\ LET record == HashMapInsert(HashMapNew, cur.resource,
                        [identifier |-> cur.identifier,
                         enc_password |-> password])
       IN  keys' = HashMapInsert(keys, cur.account, record)
    /\ logs' = Append(logs, <<"finished executing">>)
    /\ pc' = "returned"
    /\ generated_by' = generated_by \cup { cur.account }
    /\ UNCHANGED << cur, password, draws, clock, keys0, concvars >>

\* variant: the lookup goes through entry(account).or_default()
GetPassword_entry(account_id, resource) ==
    /\ HostIdle
    /\ cur' = [op |-> "get", account |-> account_id, resource |-> resource]
    /\ keys0' = keys
    /\ keys' = IF account_id \in DOMAIN keys
               THEN keys
               ELSE HashMapInsert(keys, account_id, HashMapNew)
    /\ logs' = << SavingResult(get_password(keys, account_id, resource),
                               account_id) >>
    /\ pc' = "returned"
    /\ password' = EmptyString
    /\ draws' = << >>
    /\ UNCHANGED << clock, generated_by, concvars >>

\* get_password called from outside
GetPassword(account_id, resource) ==
    /\ HostIdle
    /\ cur' = [op |-> "get", account |-> account_id, resource |-> resource]
    /\ keys0' = keys
    /\ keys' = keys
    /\ logs' = << SavingResult(get_password(keys, account_id, resource),
                               account_id) >>
    /\ pc' = "returned"
    /\ password' = EmptyString
    /\ draws' = << >>
    /\ UNCHANGED << clock, generated_by, concvars >>

\* the host clock advances
Tick ==
    /\ clock < ClockStart + MaxTicks
    /\ clock' = clock + 1
    /\ UNCHANGED << keys, seqvars, concvars >>

Next ==
    \/ \E a \in Signers, r \in Resources, id \in Identifiers :
          generate_new_password(a, r, id)
    \/ loop_iteration
    \/ loop_panic
    \/ store_record
    \/ \E a \in Accounts, r \in Resources : GetPassword(a, r)
    \/ Tick

Spec == Init /\ [][Next]_vars

\* ------------------------------------------------------------------------
\* The same code in a host that runs invocations concurrently: each
\* invocation of generate_new_password is the lookup of line 51, the loop
\* of lines 64-66 and the insert of lines 68-71, as separate steps that
\* interleave with those of the other invocation.  Both invocations are
\* made by the same signer for the same resource, with different labels.
\* With mutex, an invocation starts only when no other is between its
\* lookup and its insert.
\* ------------------------------------------------------------------------

\* the signer and the resource of both invocations
ConcAccount == "bob_near"
ConcResource == "email"

\* the label each invocation passes
ConcIdentifier == [p \in Procs |-> IF p = "p1" THEN "bob@email.com" ELSE ""]

ConcInit ==
    /\ keys = HashMapNew
    /\ clock = ClockStart
    /\ procs = ProcsReady
    /\ mutex \in BOOLEAN
    /\ pc = "ready"
    /\ cur = [op |-> "none"]
    /\ password = EmptyString
    /\ draws = << >>
    /\ logs = << >>
    /\ keys0 = HashMapNew
    /\ generated_by = {}

\* an invocation is between its lookup and its insert
InFlight(p) == procs[p].pc = "loop"

\* variant: the lock is taken after the lookup, not around the whole call
conc_lookup_late_lock(p) ==
    /\ procs[p].pc = "ready"
    /\ procs' = [procs EXCEPT ![p].pc =
                    IF is_empty(get_password(keys, ConcAccount, ConcResource))
                    THEN "loop" ELSE "returned"]
    /\ UNCHANGED << keys, clock, mutex, seqvars >>

\* lines 47-52: the lookup and the test
conc_lookup(p) ==
    /\ procs[p].pc = "ready"
    /\ mutex => \A q \in Procs \ {p} : ~InFlight(q)
    /\ procs' = [procs EXCEPT ![p].pc =
                    IF is_empty(get_password(keys, ConcAccount, ConcResource))
                    THEN "loop" ELSE "returned"]
    /\ UNCHANGED << keys, clock, mutex, seqvars >>

\* lines 64-66: one draw and push
conc_loop_iteration(p) ==
    /\ InFlight(p)
    /\ Len(procs[p].password) < password_len
    /\ LET i == generate_random_number(clock, selected_set_len)
       IN  /\ nth_is_some(selected_set, i)
           /\ procs' = [procs EXCEPT ![p].password =
                           Append(@, nth(selected_set, i))]
    /\ UNCHANGED << keys, clock, mutex, seqvars >>

\* a draw that panics
conc_loop_panic(p) ==
    /\ InFlight(p)
    /\ Len(procs[p].password) < password_len
    /\ procs' = [procs EXCEPT ![p] =
                    [pc |-> "panicked", password |-> EmptyString]]
    /\ UNCHANGED << keys, clock, mutex, seqvars >>

\* lines 68-73: the insert
conc_store_record(p) ==
    /\ InFlight(p)
    /\ Len(procs[p].password) = password_len
    /\ LET record == HashMapInsert(HashMapNew, ConcResource,
                        [identifier |-> ConcIdentifier[p],
                         enc_password |-> procs[p].password])
       IN  keys' = HashMapInsert(keys, ConcAccount, record)
    /\ procs' = [procs EXCEPT ![p].pc = "returned"]
    /\ UNCHANGED << clock, mutex, seqvars >>

ConcNext ==
    \/ \E p \in Procs : conc_lookup(p)
    \/ \E p \in Procs : conc_loop_iteration(p)
    \/ \E p \in Procs : conc_loop_panic(p)
    \/ \E p \in Procs : conc_store_record(p)
    \/ Tick

SpecConc == ConcInit /\ [][ConcNext]_vars

\* ------------------------------------------------------------------------
\* Vocabulary of the properties
\* ------------------------------------------------------------------------

\* a generate_new_password invocation has returned
GenerateReturned == pc = "returned" /\ cur.op = "generate"

\* ... and it stored a new record (the store differs from the one it found)
GenerationDone == GenerateReturned /\ keys # keys0

\* every Key held anywhere in the store
StoredKeys ==
    UNION { { keys[a][r] : r \in DOMAIN keys[a] } : a \in DOMAIN keys }

\* the characters of the four classes, as a set
UniverseChars ==
    { LOWER_CASE_LETTERS[i] : i \in 1..Len(LOWER_CASE_LETTERS) } \cup
    { UPPER_CASE_LETTERS[i] : i \in 1..Len(UPPER_CASE_LETTERS) } \cup
    { NUMBERS[i] : i \in 1..Len(NUMBERS) } \cup
    { SPECIAL_CHARS[i] : i \in 1..Len(SPECIAL_CHARS) }

\* the universe in the order the specification gives
OrderedUniverse ==
    LOWER_CASE_LETTERS \o UPPER_CASE_LETTERS \o NUMBERS \o SPECIAL_CHARS

\* ------------------------------------------------------------------------
\* C1  Idempotence.  When a signer's generate call for a resource returns
\* and the same signer's next call is again generate for that resource
\* (any owner label), the lookup after the second call gives exactly the
\* secret it gave after the first call (the store the second call found).
\* ------------------------------------------------------------------------
C1_Idempotence ==
    (cur.op = "generate" /\ cur.repeat /\ pc # "loop") =>
        /\ pc = "returned"
        /\ get_password(keys, cur.account, cur.resource)
             = get_password(keys0, cur.account, cur.resource)

\* the second of two consecutive generate calls, made with another label
C1_Witness ==
    /\ GenerateReturned
    /\ cur.repeat
    /\ get_password(keys, cur.account, cur.resource) # EmptyString
    /\ keys[cur.account][cur.resource].identifier # cur.identifier

\* ------------------------------------------------------------------------
\* C2  Persistence.  Once the lookup of (account, resource) gives a
\* non-empty secret, it gives that same secret ever after.
\* ------------------------------------------------------------------------
C2_Persistence ==
    [][ \A a \in Accounts, r \in Resources :
          get_password(keys, a, r) # EmptyString =>
              get_password(keys', a, r) = get_password(keys, a, r) ]_vars

\* ------------------------------------------------------------------------
\* C3  Overwrite instead of merge.  When a signer holding a secret for R1
\* generates one for another resource R2, afterwards the lookup of R2 is
\* non-empty, the lookup of R1 is empty, and the signer's sub-map holds
\* R2 alone.
\* ------------------------------------------------------------------------
C3_Overwrite ==
    \A r1 \in Resources :
        ( /\ GenerationDone
          /\ r1 # cur.resource
          /\ get_password(keys0, cur.account, r1) # EmptyString ) =>
            /\ get_password(keys, cur.account, cur.resource) # EmptyString
            /\ get_password(keys, cur.account, r1) = EmptyString
            /\ DOMAIN keys[cur.account] = { cur.resource }

C3_Witness ==
    /\ GenerationDone
    /\ \E r1 \in Resources \ { cur.resource } :
          /\ get_password(keys0, cur.account, r1) # EmptyString
          /\ get_password(keys, cur.account, r1) = EmptyString

\* ------------------------------------------------------------------------
\* C4  Length invariant.  Every stored secret has length exactly 12, and
\* every lookup gives the empty string or a string of length 12.
\* ------------------------------------------------------------------------
C4_Length ==
    /\ \A k \in StoredKeys : Len(k.enc_password) = 12
    /\ \A a \in Accounts, r \in Resources :
          Len(get_password(keys, a, r)) \in { 0, 12 }

\* both signers hold a secret
C4_Witness ==
    /\ \A a \in Signers : a \in DOMAIN keys
    /\ \E a \in Signers, r \in Resources :
          Len(get_password(keys, a, r)) = 12

C6_GeneratePost ==
    GenerateReturned =>
        get_password(keys, cur.account, cur.resource) # EmptyString

\* a generate that returned over a store already holding another resource
\* of the signer
C6_Witness ==
    /\ GenerationDone
    /\ cur.account \in DOMAIN keys0
    /\ get_password(keys, cur.account, cur.resource) # EmptyString

\* ------------------------------------------------------------------------
\* C7  Character-universe containment.  Every character of every stored
\* secret belongs to the four classes; and the character a generation
\* stored at position i is the element of the universe (lowercase,
\* uppercase, digits, specials, in this order) at the index the i-th draw
\* returned.
\* ------------------------------------------------------------------------
C7_Universe ==
    /\ \A k \in StoredKeys :
          \A i \in 1..Len(k.enc_password) : k.enc_password[i] \in UniverseChars
    /\ GenerationDone =>
          LET stored == keys[cur.account][cur.resource].enc_password
          IN  /\ Len(draws) = Len(stored)
              /\ \A i \in 1..Len(stored) :
                    /\ draws[i] \in 0..(Len(OrderedUniverse) - 1)
                    /\ stored[i] = OrderedUniverse[draws[i] + 1]

\* a stored secret whose draws hit the last and the first index
C7_Witness ==
    /\ GenerationDone
    /\ draws[1] = Len(OrderedUniverse) - 1
    /\ draws[password_len] = 0
    /\ keys[cur.account][cur.resource].enc_password[1] = "\""
    /\ keys[cur.account][cur.resource].enc_password[password_len] = "a"

\* ------------------------------------------------------------------------
\* C8  No-op on an existing secret.  If the lookup of (signer, resource) is
\* non-empty when the signer calls generate, the call returns with the
\* whole store as it found it (secret, owner label, every other account)
\* and without a single draw.
\* ------------------------------------------------------------------------
C8_NoOp ==
    ( /\ cur.op = "generate"
      /\ get_password(keys0, cur.account, cur.resource) # EmptyString ) =>
        /\ pc = "returned"
        /\ keys = keys0
        /\ draws = << >>
        /\ password = EmptyString

\* a call with a new label on an existing secret, another account present
C8_Witness ==
    /\ GenerateReturned
    /\ get_password(keys0, cur.account, cur.resource) # EmptyString
    /\ keys[cur.account][cur.resource].identifier # cur.identifier
    /\ \E b \in DOMAIN keys : b # cur.account

\* ------------------------------------------------------------------------
\* C9  get is a pure read.  After a get_password call, hit or miss, the
\* store is the store the call found: no account entry and no resource
\* entry was created.
\* ------------------------------------------------------------------------
C9_GetPure ==
    cur.op = "get" =>
        /\ keys = keys0
        /\ DOMAIN keys = DOMAIN keys0
        /\ \A a \in DOMAIN keys : DOMAIN keys[a] = DOMAIN keys0[a]

\* a miss on an absent account, with a store that is not empty
C9_Witness ==
    /\ pc = "returned" /\ cur.op = "get"
    /\ cur.account \notin DOMAIN keys
    /\ keys # HashMapNew

\* ------------------------------------------------------------------------
\* C10  Abort without commit.  When a draw fails, at whichever of the 12
\* positions, the invocation ends with the store as it found it; the store
\* differs from the one an invocation found only once all 12 draws were
\* made; and no stored secret is shorter than 12 characters.
\* ------------------------------------------------------------------------
C10_AbortNoCommit ==
    /\ pc = "panicked" => (cur.op = "generate" /\ keys = keys0)
    /\ pc = "loop" => (keys = keys0 /\ Len(draws) = Len(password))
    /\ keys # keys0 => (pc = "returned" /\ Len(draws) = 12)
    /\ \A k \in StoredKeys : ~(Len(k.enc_password) < 12)

\* a failed generation by a signer whose sub-map holds another resource
C10_Witness ==
    /\ pc = "panicked"
    /\ keys = keys0
    /\ cur.account \in DOMAIN keys
    /\ cur.resource \notin DOMAIN keys[cur.account]

\* ------------------------------------------------------------------------
\* C12  Draw count.  A generation that stored its record made exactly 12
\* draws, each index in 0 .. length-1 of the universe; a generate call
\* that found a secret made none; and every draw is one step of the loop
\* that appends the clock reading reduced modulo the universe length (the
\* upper bound passed) and pushes one character.
\* ------------------------------------------------------------------------
C12_Draws ==
    /\ [] ( /\ GenerationDone =>
                 /\ Len(draws) = 12
                 /\ \A i \in 1..Len(draws) :
                       draws[i] \in 0..(Len(OrderedUniverse) - 1)
            /\ (GenerateReturned /\ keys = keys0) => draws = << >>
            /\ Len(draws) <= 12 )
    /\ [][ (draws' # draws /\ draws' # << >>) =>
              /\ pc = "loop"
              /\ draws' = Append(draws, clock % Len(OrderedUniverse))
              /\ Len(password') = Len(draws') ]_vars

\* a generation whose 12 draws include index 0 and the last index
C12_Witness ==
    /\ GenerationDone
    /\ Len(draws) = 12
    /\ \E i \in 1..12 : draws[i] = 0
    /\ \E i \in 1..12 : draws[i] = Len(OrderedUniverse) - 1

\* ------------------------------------------------------------------------
\* C13  generate decides by the lookup alone.  A generate call that
\* returned stored a new Credential (its own label and secret) exactly when
\* the lookup of (signer, resource) in the store it found was empty, and a
\* call draws only after an empty lookup.
\* ------------------------------------------------------------------------
C13_LookupDecides ==
    cur.op = "generate" =>
        LET found == get_password(keys0, cur.account, cur.resource)
        IN  /\ pc = "returned" => ((keys # keys0) <=> (found = EmptyString))
            /\ pc \in { "loop", "panicked" } => found = EmptyString
            /\ keys # keys0 =>
                  /\ cur.account \in DOMAIN keys
                  /\ cur.resource \in DOMAIN keys[cur.account]
                  /\ keys[cur.account][cur.resource] =
                        [identifier |-> cur.identifier,
                         enc_password |-> password]

\* a generation by a signer that already had a sub-map, and so an empty
\* lookup on a present account
C13_Witness ==
    /\ GenerationDone
    /\ cur.account \in DOMAIN keys0
    /\ get_password(keys0, cur.account, cur.resource) = EmptyString

\* ------------------------------------------------------------------------
\* C14  No input validation.  A generate call for the empty resource name
\* (by any signer, the empty one included, with any label) that returned
\* leaves a 12-character secret under (signer, ""); a get call always
\* returns; and an invocation ends abnormally only in the draw loop, after
\* the entry event and an empty lookup, never on an argument.
\* ------------------------------------------------------------------------
C14_NoValidation ==
    /\ (GenerateReturned /\ cur.resource = "") =>
          Len(get_password(keys, cur.account, "")) = 12
    /\ cur.op = "get" => pc = "returned"
    /\ pc = "panicked" =>
          /\ cur.op = "generate"
          /\ logs = << <<"started executing">>,
                       SavingResult(EmptyString, cur.account) >>

\* a generation with all three strings empty
C14_Witness ==
    /\ GenerationDone
    /\ cur.account = "" /\ cur.resource = "" /\ cur.identifier = ""
    /\ get_password(keys0, "", "") = EmptyString
    /\ Len(get_password(keys, "", "")) = 12

\* ------------------------------------------------------------------------
\* C15  Diagnostic event order.  A generate invocation that returned,
\* having generated or not, logged the entry event, then one retrieval
\* event of its lookup, then the exit event; before it returns it has
\* logged the entry event and the retrieval event; a get invocation logged
\* exactly one retrieval event with the result and the account queried.
\* ------------------------------------------------------------------------
C15_EventOrder ==
    /\ GenerateReturned =>
          logs = << <<"started executing">>,
                    << "Saving result",
                       get_password(keys0, cur.account, cur.resource),
                       cur.account >>,
                    <<"finished executing">> >>
    /\ (cur.op = "generate" /\ pc = "loop") =>
          logs = << <<"started executing">>,
                    << "Saving result", EmptyString, cur.account >> >>
    /\ cur.op = "get" =>
          logs = << << "Saving result",
                       get_password(keys, cur.account, cur.resource),
                       cur.account >> >>

\* a generate call that found a secret and still logged all three events
C15_Witness ==
    /\ GenerateReturned
    /\ keys = keys0
    /\ Len(logs) = 3
    /\ logs[2][2] # EmptyString

\* ------------------------------------------------------------------------
\* C16  Lazy creation and single-resource shape.  An account is a key of
\* the store exactly when a generation was stored by that account, and
\* every sub-map in the store holds exactly one resource entry.
\* ------------------------------------------------------------------------
C16_LazySingle ==
    /\ DOMAIN keys \subseteq Accounts
    /\ \A a \in Accounts : (a \in DOMAIN keys) <=> (a \in generated_by)
    /\ \A a \in DOMAIN keys : Cardinality(DOMAIN keys[a]) = 1

\* a second generation by the same signer, another signer still absent
C16_Witness ==
    /\ GenerationDone
    /\ cur.account \in DOMAIN keys0
    /\ Cardinality(DOMAIN keys[cur.account]) = 1
    /\ \E b \in Signers : b \notin DOMAIN keys

\* ------------------------------------------------------------------------
\* C17  Account isolation.  During and after a generate call by signer A,
\* every other account is a key of the store exactly if it was one when the
\* call started, with the same sub-map, and every lookup under another
\* account gives what it gave before the call.
\* ------------------------------------------------------------------------
C17_Isolation ==
    cur.op = "generate" =>
        \A b \in Accounts \ { cur.account } :
            /\ (b \in DOMAIN keys) <=> (b \in DOMAIN keys0)
            /\ b \in DOMAIN keys => keys[b] = keys0[b]
            /\ \A r \in Resources :
                  get_password(keys, b, r) = get_password(keys0, b, r)

\* a generation that overwrote A's sub-map while B held a secret
C17_Witness ==
    /\ GenerationDone
    /\ cur.account \in DOMAIN keys0
    /\ \E b \in DOMAIN keys \ { cur.account } :
          \E r \in Resources : get_password(keys, b, r) # EmptyString

\* ------------------------------------------------------------------------
\* C11  Check-then-insert is not atomic.  In the concurrent host, when a
\* lock is held around generate (each invocation runs to completion before
\* the next starts), no state is reached in which both invocations for the
\* same (account, resource) have inserted and their secrets differ, the
\* store holding one of the two; without the lock that state is reached.
\* ------------------------------------------------------------------------

\* invocation p inserted a record
Inserted(p) ==
    procs[p].pc = "returned" /\ Len(procs[p].password) = password_len

\* the secret one invocation stored was replaced by a different secret of
\* the other
SecretReplaced ==
    \E p \in Procs, q \in Procs :
        /\ p # q
        /\ Inserted(p) /\ Inserted(q)
        /\ procs[p].password # procs[q].password
        /\ get_password(keys, ConcAccount, ConcResource) = procs[q].password

C11_LockedNoReplace == mutex => ~SecretReplaced

\* no lock: both invocations looked up an empty store, both inserted
C11_Witness == ~mutex /\ SecretReplaced

====
